---- MODULE Spec2Model ----
(***************************************************************************)
(* Model of invoicenudger: the reminder processor (src/lib/email.ts), its  *)
(* trigger endpoint (src/app/api/reminders/process/route.ts) and the user  *)
(* actions that write the same rows of the store (mark paid, send invoice, *)
(* schedule reminder, delete invoice, the overdue reconciliation of the    *)
(* invoice fetches).                                                       *)
(*                                                                         *)
(* The store is the single shared state.  Every await of the code is a     *)
(* step boundary: between two steps of one handler any step of another     *)
(* handler may run.  A store call resolves to {data, error} and does not   *)
(* throw; whether it fails is the environment's choice.                    *)
(***************************************************************************)
EXTENDS Integers, Sequences, FiniteSets, TLC

\* ------------------------------------------------------------- bounds
\* Time is counted in whole ticks 0..MaxTime.
MaxTime == 1
\* Number of reminder rows that can ever be inserted.
MaxReminders == 2

\* formatEmailTemplate taken on its own: instants are 0..MaxInstant, and a day
\* (1000 * 60 * 60 * 24 ms) is scaled to TicksPerDay instants.
MaxInstant == 7
TicksPerDay == 3

\* ------------------------------------------------------------- types
\* sent_at: string | null
Null == -1

InvoiceIds == {"i1", "i2"}
ClientIds == {"c1", "c2"}
ReminderIds == 1..MaxReminders
Procs == {"p1", "p2"}
Times == 0..MaxTime

InvoiceStatus == {"draft", "sent", "partially_paid", "paid", "overdue"}
ReminderStatus == {"pending", "approved", "sent", "cancelled"}

VARIABLES
  clock,        \* the wall clock, what new Date() returns
  invoices,     \* table invoices: id -> row, for the rows that exist
  clients,      \* table clients: the ids of the rows that exist
  reminders,    \* table reminders: id -> row, for the rows that exist
  nextReminder, \* the id the next inserted reminder gets (ids are never reused)
  deleting,     \* invoices whose delete mutation has removed the reminders
                \* and has not yet removed the invoice row
  removed,      \* per invoice: the reminders its running delete mutation
                \* has removed
  listWrites,   \* invoice list fetch: the invoices whose overdue update it
                \* has still to issue
  dashWrites,   \* dashboard fetch: the invoices whose overdue update it has
                \* still to issue
  detailWrites, \* invoice detail fetches: the invoices whose overdue update
                \* the fetch of that invoice has still to issue
  fetched,      \* per invoice fetch: what its latest run read, returns and wrote
  clientChecked,\* clients whose delete mutation has counted no invoice and
                \* has not yet issued its delete
  formClients,  \* the clients the open invoice form lists in its dropdown
  call,         \* a call of sendEmail or formatEmailTemplate taken on its own:
                \* its arguments, its position and its result
  proc,         \* per request slot: the state of the POST handler and of the
                \* processScheduledReminders call it awaits
  delivered     \* the reminders for which a sendEmail call has resolved to
                \* success, in this or an earlier invocation

vars == <<clock, invoices, clients, reminders, nextReminder, deleting, removed,
          listWrites, dashWrites, detailWrites, fetched, clientChecked,
          formClients, call, proc, delivered>>

storeVars == <<invoices, clients, reminders, nextReminder, deleting, removed>>
fetchVars == <<listWrites, dashWrites, detailWrites, fetched>>
formVars == <<clientChecked, formClients>>
procVars == <<proc, delivered>>

\* ------------------------------------------------------------- helpers
\* All orders in which the rows of a result set can be returned (no ORDER BY).
Perms(S) ==
  { s \in [1..Cardinality(S) -> S] : \A i, j \in 1..Cardinality(S) : i # j => s[i] # s[j] }

\* What the latest invocation that got its due rows did for each reminder: the
\* branch the loop body took, the sendEmail calls and their result, the result
\* of the update it issued.  It is kept until the next due query answers.
EmptyLog ==
  [r \in ReminderIds |-> [step |-> "none", calls |-> 0, result |-> "none", write |-> "none"]]

IdleProc ==
  [pc |-> "idle", now |-> 0, due |-> <<>>, k |-> 0, user |-> "none",
   queried |-> "none", denied |-> FALSE, threw |-> FALSE, overlapped |-> FALSE,
   log |-> EmptyLog]

\* The fetches that reconcile: the invoice list, the dashboard, and the detail
\* page of each invoice.
Fetches == {"list", "dash"} \cup InvoiceIds

\* A fetch that has not run: nothing read, nothing returned, nothing written.
NoFetch ==
  [ran |-> FALSE, data |-> [i \in {} |-> "draft"], over |-> {},
   updates |-> [i \in InvoiceIds |-> 0]]

\* No call of sendEmail or formatEmailTemplate is being looked at.
NoCall == [fn |-> "none"]

\* ------------------------------------------------------------- the store
\* The row of invoice i joined into a reminder or invoice select:
\* invoice:invoices(*, client:clients(*)); a missing row joins as null.
JoinInvoice(i) ==
  IF i \in DOMAIN invoices
    THEN [present |-> TRUE, status |-> invoices[i].status,
          client |-> invoices[i].client_id \in clients]
    ELSE [present |-> FALSE, status |-> "null", client |-> FALSE]

\* The due filter without its status condition.
IsDue_AnyStatus(row, now) == row.scheduled_date <= now

\* The due filter without its date condition.
IsDue_AnyDate(row, now) == row.status = "pending"

\* .eq("status", "pending").lte("scheduled_date", now.toISOString())
IsDue(row, now) ==
  /\ row.status = "pending"
  /\ row.scheduled_date <= now

DueIds(now) == { r \in DOMAIN reminders : IsDue(reminders[r], now) }

\* One row of the due query: the reminder with its invoice joined.
DueRow(r) ==
  [id |-> r, invoice_id |-> reminders[r].invoice_id,
   invoice |-> JoinInvoice(reminders[r].invoice_id)]

\* .update(payload).eq("id", id) on reminders: writes the row if it exists
\* and the store accepts the call; in every case the caller goes on.
UpdateReminder(id, payload, ok) ==
  IF ok /\ id \in DOMAIN reminders
    THEN [reminders EXCEPT ![id] = [f \in DOMAIN @ |->
            IF f \in DOMAIN payload THEN payload[f] ELSE @[f]]]
    ELSE reminders

\* .update({status}).eq("id", id) on invoices.
UpdateInvoiceStatus(id, st) ==
  IF id \in DOMAIN invoices
    THEN [invoices EXCEPT ![id].status = st]
    ELSE invoices

\* ------------------------------------------------------------- Init
\* Two invoices just created by the invoice form (status draft), each for its
\* own client.  The client row of the second invoice either exists or has been
\* removed by deleteClientMutation, whose invoice count and delete are two
\* separate store calls; formatEmailTemplate provides for the missing client.
InitData ==
  /\ clock = 0
  /\ invoices = [i \in InvoiceIds |->
                   [status |-> "draft",
                    due_date |-> IF i = "i1" THEN 0 ELSE MaxTime,
                    client_id |-> IF i = "i1" THEN "c1" ELSE "c2"]]
  /\ clients \in {ClientIds, ClientIds \ {"c2"}}
  /\ listWrites = {}
  /\ dashWrites = {}
  /\ detailWrites = {}
  /\ fetched = [f \in Fetches |-> NoFetch]
  /\ clientChecked = {}
  /\ formClients = {}
  /\ reminders = <<>>
  /\ nextReminder = 1
  /\ deleting = {}
  /\ removed = [i \in InvoiceIds |-> {}]
  /\ proc = [p \in Procs |-> IdleProc]
  /\ delivered = {}

\* No call of a function on its own is being followed, and the environment and
\* the header of the requests are not fixed.
Init == InitData /\ call = NoCall

\* ------------------------------------------------------------- time
Tick ==
  /\ clock < MaxTime
  /\ clock' = clock + 1
  /\ UNCHANGED <<storeVars, fetchVars, procVars, formVars, call>>

\* ------------------------------------------------------------- user actions
\* InvoiceDetail.sendInvoiceMutation; the button is rendered for a draft.
SendInvoice(i) ==
  /\ i \in DOMAIN invoices
  /\ invoices[i].status = "draft"
  /\ invoices' = UpdateInvoiceStatus(i, "sent")
  /\ UNCHANGED <<clock, clients, reminders, nextReminder, deleting, removed, fetchVars, procVars, formVars, call>>

\* InvoiceDetail.markAsPaidMutation; the button is rendered for sent or overdue.
MarkPaidDetail(i) ==
  /\ i \in DOMAIN invoices
  /\ invoices[i].status \in {"sent", "overdue"}
  /\ invoices' = UpdateInvoiceStatus(i, "paid")
  /\ UNCHANGED <<clock, clients, reminders, nextReminder, deleting, removed, fetchVars, procVars, formVars, call>>

\* InvoiceList.markAsPaidMutation; the quick action is rendered unless paid.
MarkPaidList(i) ==
  /\ i \in DOMAIN invoices
  /\ invoices[i].status # "paid"
  /\ invoices' = UpdateInvoiceStatus(i, "paid")
  /\ UNCHANGED <<clock, clients, reminders, nextReminder, deleting, removed, fetchVars, procVars, formVars, call>>

\* The row ReminderScheduler inserts.
NewReminder(i, d) ==
  [invoice_id |-> i, scheduled_date |-> d, status |-> "pending", sent_at |-> Null]

\* ReminderScheduler.mutation; the page is linked from a sent or overdue invoice.
ScheduleReminder(i, d) ==
  /\ i \in DOMAIN invoices
  /\ invoices[i].status \in {"sent", "overdue"}
  /\ nextReminder <= MaxReminders
  /\ reminders' = [r \in DOMAIN reminders \cup {nextReminder} |->
                     IF r = nextReminder THEN NewReminder(i, d) ELSE reminders[r]]
  /\ nextReminder' = nextReminder + 1
  /\ UNCHANGED <<clock, invoices, clients, deleting, removed, fetchVars, procVars, formVars, call>>

\* deleteInvoiceMutation, first call: .from("reminders").delete().eq("invoice_id", id)
DeleteInvoiceReminders(i) ==
  /\ i \in DOMAIN invoices
  /\ i \notin deleting
  /\ reminders' = [r \in { x \in DOMAIN reminders : reminders[x].invoice_id # i } |->
                     reminders[r]]
  /\ deleting' = deleting \cup {i}
  /\ removed' = [removed EXCEPT ![i] =
       { x \in DOMAIN reminders : reminders[x].invoice_id = i }]
  /\ UNCHANGED <<clock, invoices, clients, nextReminder, fetchVars, procVars, formVars, call>>

\* deleteInvoiceMutation, second call: .from("invoices").delete().eq("id", id);
\* when the store refuses it the mutation throws and the row stays.
DeleteInvoiceRow(i) ==
  /\ i \in deleting
  /\ \E ok \in BOOLEAN :
       invoices' = IF ok THEN [x \in DOMAIN invoices \ {i} |-> invoices[x]] ELSE invoices
  /\ deleting' = deleting \ {i}
  /\ removed' = [removed EXCEPT ![i] = {}]
  /\ UNCHANGED <<clock, clients, reminders, nextReminder, fetchVars, procVars, formVars, call>>

\* ------------------------------------------------------------- clients
\* InvoiceForm, the clients query: the rows the dropdown of the form offers.
OpenInvoiceForm ==
  /\ formClients' = clients
  /\ UNCHANGED <<clock, storeVars, fetchVars, procVars, clientChecked, call>>

\* A form that writes the initial status on every save.
InvoiceData_AlwaysDraft(isEditing, c, d) ==
  [status |-> "draft", due_date |-> d, client_id |-> c]

\* invoiceData = {...values, status: isEditing ? undefined : "draft", ...}: a
\* property that is undefined is not part of the request body.
InvoiceData(isEditing, c, d) ==
  IF isEditing THEN [due_date |-> d, client_id |-> c]
               ELSE [status |-> "draft", due_date |-> d, client_id |-> c]

\* .update(payload).eq("id", id) on invoices: the columns of the payload are
\* written, the others are kept.
UpdateInvoice(id, payload) ==
  [invoices EXCEPT ![id] = [f \in DOMAIN invoices[id] |->
     IF f \in DOMAIN payload THEN payload[f] ELSE invoices[id][f]]]

\* InvoiceForm.mutation, not editing: .insert({...values, status: "draft"}) with
\* the client chosen in the dropdown; when the store refuses it the mutation
\* throws and nothing is stored.
CreateInvoice(i, c, d) ==
  /\ i \notin DOMAIN invoices
  /\ c \in formClients
  /\ \E ok \in BOOLEAN :
       invoices' = IF ok
         THEN [x \in DOMAIN invoices \cup {i} |->
                 IF x = i THEN InvoiceData(FALSE, c, d) ELSE invoices[x]]
         ELSE invoices
  /\ UNCHANGED <<clock, clients, reminders, nextReminder, deleting, removed, fetchVars, procVars, formVars, call>>

\* InvoiceForm.mutation, editing: .update({...values, status: undefined}); the
\* status of the row is kept.
EditInvoice(i, c, d) ==
  /\ i \in DOMAIN invoices
  /\ c \in formClients
  /\ \E ok \in BOOLEAN :
       invoices' = IF ok THEN UpdateInvoice(i, InvoiceData(TRUE, c, d)) ELSE invoices
  /\ UNCHANGED <<clock, clients, reminders, nextReminder, deleting, removed, fetchVars, procVars, formVars, call>>

\* .from("invoices").select("*", { count: "exact", head: true }).eq("client_id", clientId)
InvoiceCount(c) == Cardinality({ i \in DOMAIN invoices : invoices[i].client_id = c })

\* deleteClientMutation, first call: the count of the client's invoices; with
\* a count above 0 (or an error) the mutation throws and nothing is deleted.
DeleteClientCheck(c) ==
  /\ c \in clients
  /\ c \notin clientChecked
  /\ InvoiceCount(c) = 0
  /\ clientChecked' = clientChecked \cup {c}
  /\ UNCHANGED <<clock, storeVars, fetchVars, procVars, formClients, call>>

\* deleteClientMutation, second call: .from("clients").delete().eq("id", clientId)
DeleteClientRow(c) ==
  /\ c \in clientChecked
  /\ \E ok \in BOOLEAN : clients' = IF ok THEN clients \ {c} ELSE clients
  /\ clientChecked' = clientChecked \ {c}
  /\ UNCHANGED <<clock, invoices, reminders, nextReminder, deleting, removed, fetchVars, procVars, formClients, call>>

\* ------------------------------------------------------------- reconciliation
\* A check of the due date alone.
IsOverdue_AnyStatus(row, now) == row.due_date < now

\* invoice.status === "sent" && isPast(parseISO(invoice.due_date))
IsOverdue(row, now) ==
  /\ row.status = "sent"
  /\ row.due_date < now

\* A map that returns every row as it is stored.
Reconciled_Stored(row, now) == row.status

\* The map of the list and of the dashboard: the status of the row in
\* updatedInvoices, which the fetch returns.
Reconciled(row, now) == IF IsOverdue(row, now) THEN "overdue" ELSE row.status

\* What a collection fetch holds after its select: updatedInvoices (data), the
\* rows it found overdue (over, overdueInvoices), no update issued yet.
CollectionRead(now) ==
  [ran |-> TRUE,
   data |-> [i \in DOMAIN invoices |-> Reconciled(invoices[i], now)],
   over |-> { i \in DOMAIN invoices : IsOverdue(invoices[i], now) },
   updates |-> [i \in InvoiceIds |-> 0]]

\* InvoiceList queryFn, the select: the rows are read and the
\* overdue ones are collected; their updates are issued next (Promise.all).
ListRead ==
  /\ listWrites = {}
  /\ listWrites' = { i \in DOMAIN invoices : IsOverdue(invoices[i], clock) }
  /\ fetched' = [fetched EXCEPT !["list"] = CollectionRead(clock)]
  /\ UNCHANGED <<clock, storeVars, dashWrites, detailWrites, procVars, formVars, call>>

\* One update of the Promise.all: .update({ status: "overdue" }).eq("id", id).
\* Its result is not looked at.
ListWrite(i) ==
  /\ i \in listWrites
  /\ \E ok \in BOOLEAN :
       invoices' = IF ok THEN UpdateInvoiceStatus(i, "overdue") ELSE invoices
  /\ listWrites' = listWrites \ {i}
  /\ fetched' = [fetched EXCEPT !["list"].updates[i] = @ + 1]
  /\ UNCHANGED <<clock, clients, reminders, nextReminder, deleting, removed, dashWrites, detailWrites, procVars, formVars, call>>

\* Dashboard queryFn, the select: the same reconciliation as the invoice list,
\* run by its own fetch.
DashboardRead ==
  /\ dashWrites = {}
  /\ dashWrites' = { i \in DOMAIN invoices : IsOverdue(invoices[i], clock) }
  /\ fetched' = [fetched EXCEPT !["dash"] = CollectionRead(clock)]
  /\ UNCHANGED <<clock, storeVars, listWrites, detailWrites, procVars, formVars, call>>

\* One update of the dashboard's Promise.all.
DashboardWrite(i) ==
  /\ i \in dashWrites
  /\ \E ok \in BOOLEAN :
       invoices' = IF ok THEN UpdateInvoiceStatus(i, "overdue") ELSE invoices
  /\ dashWrites' = dashWrites \ {i}
  /\ fetched' = [fetched EXCEPT !["dash"].updates[i] = @ + 1]
  /\ UNCHANGED <<clock, clients, reminders, nextReminder, deleting, removed, listWrites, detailWrites, procVars, formVars, call>>

\* InvoiceDetail queryFn, the select of one invoice: data is the stored row;
\* when it is sent and past due the update is issued next.
DetailRead(i) ==
  /\ i \in DOMAIN invoices
  /\ i \notin detailWrites
  /\ detailWrites' = IF IsOverdue(invoices[i], clock) THEN detailWrites \cup {i}
                                                      ELSE detailWrites
  /\ fetched' = [fetched EXCEPT ![i] =
       [ran |-> TRUE,
        data |-> [x \in {i} |-> invoices[i].status],
        over |-> IF IsOverdue(invoices[i], clock) THEN {i} ELSE {},
        updates |-> [x \in InvoiceIds |-> 0]]]
  /\ UNCHANGED <<clock, storeVars, listWrites, dashWrites, procVars, formVars, call>>

\* InvoiceDetail queryFn, the update: .update({ status: "overdue" }).eq("id", id);
\* if (!updateError) data.status = "overdue".
DetailWrite(i) ==
  /\ i \in detailWrites
  /\ \E ok \in BOOLEAN :
       /\ invoices' = IF ok THEN UpdateInvoiceStatus(i, "overdue") ELSE invoices
       /\ fetched' = [fetched EXCEPT ![i].updates[i] = @ + 1,
                                     ![i].data[i] = IF ok THEN "overdue" ELSE @]
  /\ detailWrites' = detailWrites \ {i}
  /\ UNCHANGED <<clock, clients, reminders, nextReminder, deleting, removed, listWrites, dashWrites, procVars, formVars, call>>

\* The updates fetch f has still to issue.
Todo(f) ==
  IF f = "list" THEN listWrites
  ELSE IF f = "dash" THEN dashWrites
  ELSE detailWrites \cap {f}

\* Fetch f has run and its queryFn has returned fetched[f].data to the caller.
Returned(f) == fetched[f].ran /\ Todo(f) = {}

\* ------------------------------------------------------------- sendEmail
\* undefined, null and "" alike: the falsy string.
Unset == ""

\* a || b on strings
OrElse(a, b) == IF a # Unset THEN a ELSE b

\* The arguments a call of sendEmail can get, and its environment.
Contents ==
  [to : {"client@acme.test"}, fromName : {Unset, "Ann"},
   fromEmail : {Unset, "ann@studio.test"}, replyTo : {Unset, "reply@studio.test"}]
EnvFrom == {Unset, "billing@studio.test"}

\* A sender name that is passed on as it came.
FromName_NoDefault(content) == content.fromName

\* const fromName = content.fromName || "Invoice Nudger"
FromName(content) == OrElse(content.fromName, "Invoice Nudger")

\* const fromEmail = content.fromEmail || process.env.EMAIL_FROM || "noreply@invoicenudger.com"
FromEmail(content, envFrom) ==
  OrElse(content.fromEmail, OrElse(envFrom, "noreply@invoicenudger.com"))

\* The msg handed to mail.send.
Message(content, envFrom) ==
  [to |-> content.to,
   from |-> [email |-> FromEmail(content, envFrom), name |-> FromName(content)],
   replyTo |-> OrElse(content.replyTo, FromEmail(content, envFrom))]

\* A catch that throws the error on.
Caught_Rethrow(err) == [kind |-> "thrown", success |-> FALSE, error |-> err]

\* catch (error): return { success: false, error: error.message || "Failed to send email" }
Caught(err) ==
  [kind |-> "resolved", success |-> FALSE, error |-> OrElse(err, "Failed to send email")]

\* The call of sendEmail that is looked at: not entered, with these arguments.
NewSendEmail(content, key, envFrom) ==
  [fn |-> "sendEmail", pc |-> "try", content |-> content, key |-> key,
   envFrom |-> envFrom, sends |-> 0, provider |-> "none", msg |-> Unset,
   err |-> Unset, result |-> Unset]

\* The try block up to mail.send: without SENDGRID_API_KEY it throws, else it
\* builds msg.
SendEmailTry ==
  /\ call.fn = "sendEmail" /\ call.pc = "try"
  /\ call' = IF ~call.key
       THEN [call EXCEPT !.pc = "catch", !.err = "SendGrid API key is not configured"]
       ELSE [call EXCEPT !.pc = "send", !.msg = Message(call.content, call.envFrom)]
  /\ UNCHANGED <<clock, storeVars, fetchVars, procVars, formVars>>

\* await mail.send(msg): the provider accepts the message, or rejects with an
\* error that has a message or has none.
MailSend ==
  /\ call.fn = "sendEmail" /\ call.pc = "send"
  /\ \E outcome \in {"accepted", "rejected"}, message \in {"Unauthorized", Unset} :
       call' = IF outcome = "accepted"
         THEN [call EXCEPT !.pc = "done", !.sends = @ + 1, !.provider = outcome,
                           !.result = [kind |-> "resolved", success |-> TRUE, error |-> Unset]]
         ELSE [call EXCEPT !.pc = "catch", !.sends = @ + 1, !.provider = outcome,
                           !.err = message]
  /\ UNCHANGED <<clock, storeVars, fetchVars, procVars, formVars>>

\* The catch block.
SendEmailCatch ==
  /\ call.fn = "sendEmail" /\ call.pc = "catch"
  /\ call' = [call EXCEPT !.pc = "done", !.result = Caught(call.err)]
  /\ UNCHANGED <<clock, storeVars, fetchVars, procVars, formVars>>

\* ------------------------------------------------------------- formatEmailTemplate
Instants == 0..MaxInstant

\* String(n) for an integer: the decimal digits, after a minus sign when n < 0.
RECURSIVE Digits(_)
Digits(n) ==
  LET digit == <<"0", "1", "2", "3", "4", "5", "6", "7", "8", "9">>[(n % 10) + 1]
  IN IF n < 10 THEN <<digit>> ELSE Append(Digits(n \div 10), digit)
String(n) == IF n < 0 THEN <<"-">> \o Digits(0 - n) ELSE Digits(n)

\* Math.floor((today.getTime() - dueDate.getTime()) / (1000 * 60 * 60 * 24))
DaysOverdue(today, dueDate) == (today - dueDate) \div TicksPerDay

\* A value that is rendered as it was computed.
Clamp_None(daysOverdue) == daysOverdue

\* daysOverdue > 0 ? daysOverdue : 0
Clamp(daysOverdue) == IF daysOverdue > 0 THEN daysOverdue ELSE 0

\* "{days_overdue}": String(daysOverdue > 0 ? daysOverdue : 0)
RenderDaysOverdue(today, dueDate) == String(Clamp(DaysOverdue(today, dueDate)))

\* A text is a sequence of symbols: a character, or one of the placeholders,
\* which stands for the characters between its braces and the braces.  No
\* other symbol has a brace, so a placeholder is found in a text where its
\* symbol is.  The keys of `replacements`, in the order they are written.
Placeholders ==
  <<"{invoice_number}", "{amount}", "{due_date}", "{days_overdue}",
    "{client_name}", "{user_name}", "{company_name}">>

\* amount.toFixed(2), for an amount held in hundredths.
ToFixed2(amount) ==
  Digits(amount \div 100) \o <<".">> \o Digits((amount % 100) \div 10) \o Digits(amount % 10)

\* dueDate.toLocaleDateString("en-US", {year: "numeric", month: "long",
\* day: "numeric"}) for the instants of the model, which are days of January
\* 1970.
LongDate(dueDate) ==
  <<"J", "a", "n", "u", "a", "r", "y", " ">> \o Digits(dueDate \div TicksPerDay + 1)
    \o <<",", " ", "1", "9", "7", "0">>

\* const replacements: the value of each placeholder.
Replacements(today, dueDate, invoice) ==
  <<invoice.invoice_number,
    invoice.currency \o <<" ">> \o ToFixed2(invoice.amount),
    LongDate(dueDate),
    RenderDaysOverdue(today, dueDate),
    invoice.client_name,
    <<>>,
    <<>> >>

\* String.prototype.replace with a string as the replacement: in it "$$"
\* stands for "$" and "$&" for the matched text; the other characters stand
\* for themselves.
RECURSIVE GetSubstitution(_, _)
GetSubstitution(matched, replacement) ==
  IF replacement = <<>> THEN <<>>
  ELSE IF Len(replacement) >= 2 /\ replacement[1] = "$" /\ replacement[2] = "$"
    THEN <<"$">> \o GetSubstitution(matched, Tail(Tail(replacement)))
  ELSE IF Len(replacement) >= 2 /\ replacement[1] = "$" /\ replacement[2] = "&"
    THEN matched \o GetSubstitution(matched, Tail(Tail(replacement)))
  ELSE <<Head(replacement)>> \o GetSubstitution(matched, Tail(replacement))

\* text.replace(new RegExp(key, "g"), value)
RECURSIVE ReplaceAll(_, _, _)
ReplaceAll(text, key, value) ==
  IF text = <<>> THEN <<>>
  ELSE (IF Head(text) = key THEN GetSubstitution(<<key>>, value) ELSE <<Head(text)>>)
         \o ReplaceAll(Tail(text), key, value)

\* Object.entries(replacements).forEach(...): the replacements are made one
\* after the other, each on the text the one before has left; n of them here.
RECURSIVE ReplaceFirst(_, _, _)
ReplaceFirst(n, text, values) ==
  IF n = 0 THEN text
  ELSE ReplaceAll(ReplaceFirst(n - 1, text, values), Placeholders[n], values[n])

\* body.replace(/\n/g, "<br />")
RECURSIVE LineBreaks(_)
LineBreaks(text) ==
  IF text = <<>> THEN <<>>
  ELSE (IF Head(text) = "\n" THEN <<"<", "b", "r", " ", "/", ">">> ELSE <<Head(text)>>)
         \o LineBreaks(Tail(text))

\* The call of formatEmailTemplate that is looked at: the template, the
\* invoice with its client, due at dueDate, and the time of the call.
NewRender(today, dueDate, template, invoice) ==
  [fn |-> "formatEmailTemplate", pc |-> "start", today |-> today, dueDate |-> dueDate,
   template |-> template, invoice |-> invoice,
   days_overdue |-> <<>>, subject |-> <<>>, body |-> <<>>]

\* A call with the default template of a first reminder.
NewFormat(today, dueDate) ==
  NewRender(today, dueDate,
    [subject |-> <<"D", "u", "e", " ", "{invoice_number}">>,
     body |-> <<"{client_name}", "\n", "{days_overdue}">>],
    [invoice_number |-> <<"1">>, currency |-> <<"U", "S", "D">>, amount |-> 1050,
     client_name |-> <<"A", "n", "n">>])

\* formatEmailTemplate with template, invoice and client present.
FormatEmailTemplate ==
  /\ call.fn = "formatEmailTemplate" /\ call.pc = "start"
  /\ LET values == Replacements(call.today, call.dueDate, call.invoice)
         n == Len(Placeholders)
     IN call' = [call EXCEPT
          !.pc = "done",
          !.days_overdue = values[4],
          !.subject = ReplaceFirst(n, call.template.subject, values),
          !.body = LineBreaks(ReplaceFirst(n, call.template.body, values))]
  /\ UNCHANGED <<clock, storeVars, fetchVars, procVars, formVars>>

\* ------------------------------------------------------------- the trigger
\* route.ts POST: the status of the response, after the key check failed or
\* after processScheduledReminders returned or threw.
RespondPOST(denied, threw) ==
  IF denied THEN "401" ELSE IF threw THEN "500" ELSE "200"

\* A key check that lets every request through.
Unauthorized_Never(secretSet, keyMatches) == FALSE

\* if (secretKey && apiKey !== secretKey)
Unauthorized(secretSet, keyMatches) == secretSet /\ ~keyMatches

\* email.ts 136-138: the outer catch logs the error and the function returns;
\* nothing is rethrown to the caller.
OuterCatchRethrows == FALSE

\* processScheduledReminders is running at slot q: called and not yet returned.
Running(q) == proc[q].pc \in {"query", "loop", "send", "update"}

\* A request arrives at slot p: the key check, then the call of the processor,
\* which takes `now` and issues the due query.  When the environment and the
\* header of the requests are fixed (call) the check is made on them.  An
\* invocation that starts while another one is running overlaps it, and both
\* are marked.
POST(p) ==
  /\ proc[p].pc = "idle"
  /\ \E secretSet, keyMatches \in BOOLEAN :
       /\ call.fn = "POST" => (secretSet = call.secretSet /\ keyMatches = call.keyMatches)
       /\ IF Unauthorized(secretSet, keyMatches)
            THEN proc' = [proc EXCEPT ![p].pc = "return", ![p].denied = TRUE]
            ELSE proc' = [q \in Procs |->
                   IF q = p
                     THEN [proc[p] EXCEPT !.pc = "query", !.now = clock,
                                          !.overlapped = \E o \in Procs \ {p} : Running(o)]
                     ELSE IF Running(q) THEN [proc[q] EXCEPT !.overlapped = TRUE]
                                        ELSE proc[q]]
  /\ UNCHANGED <<clock, storeVars, fetchVars, delivered, formVars, call>>

\* ------------------------------------------------------------- the processor
\* A loop that steps over the reminder after the current one.
Advance_SkipOne(pr) ==
  IF pr.k + 2 > Len(pr.due)
    THEN [pr EXCEPT !.pc = "return", !.k = Len(pr.due) + 1, !.user = "none"]
    ELSE [pr EXCEPT !.pc = "loop", !.k = @ + 2, !.user = "none"]

\* The loop goes on with the next reminder; after the last one the function
\* returns and POST answers.
Advance(pr) ==
  IF pr.k + 1 > Len(pr.due)
    THEN [pr EXCEPT !.pc = "return", !.k = @ + 1, !.user = "none"]
    ELSE [pr EXCEPT !.pc = "loop", !.k = @ + 1, !.user = "none"]

\* A catch that leaves the loop.
AfterThrow_Abort(pr) == [pr EXCEPT !.pc = "return", !.user = "none"]

\* catch (reminderError): logged, and the for loop continues.
AfterThrow(pr) == Advance(pr)

\* The response POST is about to give at slot p.
Response(p) == RespondPOST(proc[p].denied, proc[p].threw)

\* POST answers: the key check failed, or processScheduledReminders has
\* returned or thrown.  The request is over.
Return(p) ==
  /\ proc[p].pc = "return"
  /\ proc' = [proc EXCEPT ![p] = [IdleProc EXCEPT !.log = proc[p].log]]
  /\ UNCHANGED <<clock, storeVars, fetchVars, delivered, formVars, call>>

\* The due query resolves: with an error (thrown, caught by the outer catch),
\* with no rows (return), or with the due reminders in some order.
QueryDue(p) ==
  /\ proc[p].pc = "query"
  /\ \E ok \in BOOLEAN :
       IF ~ok
         THEN proc' = [proc EXCEPT ![p].pc = "return", ![p].queried = "error",
                                   ![p].threw = OuterCatchRethrows]
         ELSE \E order \in Perms(DueIds(proc[p].now)) :
                LET due == [n \in DOMAIN order |-> DueRow(order[n])]
                    pr == [proc[p] EXCEPT !.queried = "ok", !.due = due, !.k = 0,
                                          !.log = EmptyLog]
                IN proc' = [proc EXCEPT ![p] = Advance(pr)]
  /\ UNCHANGED <<clock, storeVars, fetchVars, delivered, formVars, call>>

\* A loop body without the paid check.
SkipPaid_Never(inv) == FALSE

\* if (reminder.invoice.status === "paid")
SkipPaid(inv) == inv.status = "paid"

\* A null invoice or client that goes unnoticed.
RenderThrows_Never(inv) == FALSE

\* An update that records the time and not the status.
SentPayload_OnlyTime(t) == [sent_at |-> t]

\* .update({ status: "cancelled" })
CancelPayload == [status |-> "cancelled"]

\* An update that records the status and not the time.
SentPayload_NoTime(t) == [status |-> "sent"]

\* An update that also moves the reminder to the time of the send.
SentPayload_Reschedule(t) == [status |-> "sent", sent_at |-> t, scheduled_date |-> t]

\* .update({ status: "sent", sent_at: new Date().toISOString() })
SentPayload(t) == [status |-> "sent", sent_at |-> t]

\* formatEmailTemplate throws when template, invoice or invoice.client is missing.
RenderThrows(inv) == ~inv.present \/ ~inv.client

\* Top of the loop body for reminder due[k]: the paid check on the joined
\* invoice (a null invoice throws a TypeError) and the cancelling update, or
\* the rendering of the template and the lookup of the invoice owner:
\* users.select("*").eq("id", invoice.user_id).single() gives a row or null.
\* No handler of the model writes the users table, so the await of the lookup
\* commutes with every other step and is taken with this one.
LoopHead(p) ==
  /\ proc[p].pc = "loop"
  /\ LET pr == proc[p]
         row == pr.due[pr.k]
         r == row.id
     IN IF ~row.invoice.present
          THEN /\ proc' = [proc EXCEPT ![p] = AfterThrow([pr EXCEPT !.log[r].step = "threw"])]
               /\ UNCHANGED reminders
          ELSE IF SkipPaid(row.invoice)
            THEN \E ok \in BOOLEAN :
                   /\ reminders' = UpdateReminder(r, CancelPayload, ok)
                   /\ proc' = [proc EXCEPT ![p] =
                        Advance([pr EXCEPT !.log[r].step = "cancel",
                                           !.log[r].write = IF ok THEN "ok" ELSE "error"])]
            ELSE IF RenderThrows(row.invoice)
              THEN /\ proc' = [proc EXCEPT ![p] = AfterThrow([pr EXCEPT !.log[r].step = "threw"])]
                   /\ UNCHANGED reminders
              ELSE /\ \E u \in {"row", "null"} :
                        proc' = [proc EXCEPT ![p] =
                          [pr EXCEPT !.pc = "send", !.user = u, !.log[r].step = "send"]]
                   /\ UNCHANGED reminders
  /\ UNCHANGED <<clock, invoices, clients, nextReminder, deleting, removed, fetchVars, delivered, formVars, call>>

\* The arguments of the processor's sendEmail call: to is the client's email,
\* fromName is user?.full_name || undefined, replyTo is user?.email || undefined,
\* fromEmail is not passed.
EmailContent(user) ==
  [to |-> "client@acme.test",
   fromName |-> IF user = "row" THEN "Ann" ELSE Unset,
   fromEmail |-> Unset,
   replyTo |-> IF user = "row" THEN "reply@studio.test" ELSE Unset]

\* A field read without the optional chaining: user.full_name.
UserFieldThrows_Unguarded(user) == user = "null"

\* user?.full_name, user?.email: a null user gives undefined, nothing throws.
UserFieldThrows(user) == FALSE

\* A result check that takes every result for a success.
MarksSent_Always(result) == TRUE

\* if (emailResult.success)
MarksSent(result) == result = "ok"

\* await sendEmail(...) with the user's name and address when the lookup gave
\* a row: resolves to success or to failure, never throws.  On failure the
\* error is logged and the loop goes on.  The user is kept until the loop
\* advances.
SendEmail(p) ==
  /\ proc[p].pc = "send"
  /\ LET pr == proc[p]
         r == pr.due[pr.k].id
     IN IF UserFieldThrows(pr.user)
          THEN /\ proc' = [proc EXCEPT ![p] = AfterThrow([pr EXCEPT !.log[r].step = "threw"])]
               /\ UNCHANGED delivered
          ELSE \E result \in {"ok", "fail"} :
            LET logged == [pr EXCEPT !.log[r].calls = @ + 1, !.log[r].result = result]
            IN /\ delivered' = IF result = "ok" THEN delivered \cup {r} ELSE delivered
               /\ proc' = [proc EXCEPT ![p] =
                    IF MarksSent(result) THEN [logged EXCEPT !.pc = "update"]
                                         ELSE Advance(logged)]
  /\ UNCHANGED <<clock, storeVars, fetchVars, formVars, call>>

\* The update that records the send; its result is not looked at.
UpdateSent(p) ==
  /\ proc[p].pc = "update"
  /\ LET pr == proc[p]
         r == pr.due[pr.k].id
     IN \E ok \in BOOLEAN :
          /\ reminders' = UpdateReminder(r, SentPayload(clock), ok)
          /\ proc' = [proc EXCEPT ![p] =
               Advance([pr EXCEPT !.log[r].write = IF ok THEN "ok" ELSE "error"])]
  /\ UNCHANGED <<clock, invoices, clients, nextReminder, deleting, removed, fetchVars, delivered, formVars, call>>

\* The process that runs processScheduledReminders dies at an await: the
\* calls that have resolved keep their effect, nothing after them is run, and
\* nothing in the function is undone or resumed.
Crash(p) ==
  /\ Running(p)
  /\ proc' = [proc EXCEPT ![p] = [IdleProc EXCEPT !.log = proc[p].log]]
  /\ UNCHANGED <<clock, storeVars, fetchVars, delivered, formVars, call>>

\* ------------------------------------------------------------- specifications
UserStep ==
  \/ \E i \in InvoiceIds : SendInvoice(i)
  \/ \E i \in InvoiceIds : MarkPaidDetail(i)
  \/ \E i \in InvoiceIds : MarkPaidList(i)
  \/ \E i \in InvoiceIds, d \in Times : ScheduleReminder(i, d)
  \/ \E i \in InvoiceIds : DeleteInvoiceReminders(i)
  \/ \E i \in InvoiceIds : DeleteInvoiceRow(i)

ProcStep(p) ==
  \/ QueryDue(p)
  \/ LoopHead(p)
  \/ SendEmail(p)
  \/ UpdateSent(p)
  \/ Return(p)

\* The trigger is called by one scheduler, one request after the other: every
\* request is served at slot p1.
Next ==
  \/ Tick
  \/ UserStep
  \/ POST("p1")
  \/ ProcStep("p1")

Spec == Init /\ [][Next]_vars

\* Every update an invocation has issued was applied by the store.
NoRefusedWrite ==
  \A p \in Procs : \A r \in ReminderIds : proc[p].log[r].write # "error"

\* The steps of an invocation whose updates the store applies.
ProcStepApplied(p) ==
  \/ QueryDue(p)
  \/ LoopHead(p) /\ NoRefusedWrite'
  \/ SendEmail(p)
  \/ UpdateSent(p) /\ NoRefusedWrite'
  \/ Return(p)

\* No invocation has processed a reminder yet, and none is running.
NothingProcessed == proc["p1"].pc = "idle" /\ proc["p1"].log = EmptyLog

\* Invocations that follow each other with nothing in between but time: the
\* users act before the first invocation that finds a due reminder.
NextQuiet ==
  \/ Tick
  \/ NothingProcessed /\ UserStep
  \/ POST("p1")
  \/ ProcStep("p1")

SpecQuiet == Init /\ [][NextQuiet]_vars

\* Invocations one after the other, each of which may crash at any await;
\* every store update that is issued succeeds.
NextCrash ==
  \/ Tick
  \/ NothingProcessed /\ UserStep
  \/ POST("p1")
  \/ ProcStepApplied("p1")
  \/ Crash("p1")

SpecCrash == Init /\ [][NextCrash]_vars

\* The deployments and the callers of the trigger: API_SECRET_KEY is set or
\* not, and the x-api-key header of the requests equals it or not.
Requests ==
  { [fn |-> "POST", secretSet |-> s, keyMatches |-> k] : s, k \in BOOLEAN }

\* The trigger under one deployment and one caller.
InitTrigger == InitData /\ call \in Requests

SpecTrigger == InitTrigger /\ [][NextQuiet]_vars

\* The invoice fetches with their overdue reconciliation, and the user actions
\* on the status of an invoice.
NextReconcile ==
  \/ Tick
  \/ \E i \in InvoiceIds : SendInvoice(i)
  \/ \E i \in InvoiceIds : MarkPaidDetail(i)
  \/ \E i \in InvoiceIds : MarkPaidList(i)
  \/ ListRead
  \/ \E i \in InvoiceIds : ListWrite(i)
  \/ DashboardRead
  \/ \E i \in InvoiceIds : DashboardWrite(i)
  \/ \E i \in InvoiceIds : DetailRead(i)
  \/ \E i \in InvoiceIds : DetailWrite(i)

SpecReconcile == Init /\ [][NextReconcile]_vars

\* The clients and the invoices that name them.  One invoice exists and every
\* client row is stored; the second invoice has not been created yet.
InitStore ==
  /\ clock = 0
  /\ invoices = [i \in {"i1"} |-> [status |-> "draft", due_date |-> 0, client_id |-> "c1"]]
  /\ clients = ClientIds
  /\ listWrites = {}
  /\ dashWrites = {}
  /\ detailWrites = {}
  /\ fetched = [f \in Fetches |-> NoFetch]
  /\ clientChecked = {}
  /\ formClients = {}
  /\ reminders = <<>>
  /\ nextReminder = 1
  /\ deleting = {}
  /\ removed = [i \in InvoiceIds |-> {}]
  /\ proc = [p \in Procs |-> IdleProc]
  /\ delivered = {}

InitClients == InitStore /\ call = NoCall

NextClients ==
  \/ OpenInvoiceForm
  \/ \E i \in InvoiceIds, c \in ClientIds, d \in Times : CreateInvoice(i, c, d)
  \/ \E i \in InvoiceIds, c \in ClientIds, d \in Times : EditInvoice(i, c, d)
  \/ \E c \in ClientIds : DeleteClientCheck(c)
  \/ \E c \in ClientIds : DeleteClientRow(c)

SpecClients == InitClients /\ [][NextClients]_vars

\* The invoice form next to what gives a stored invoice its status: the send
\* and mark-as-paid buttons and the overdue reconciliation of the list.
NextForm ==
  \/ Tick
  \/ OpenInvoiceForm
  \/ \E i \in InvoiceIds, c \in ClientIds, d \in Times : CreateInvoice(i, c, d)
  \/ \E i \in InvoiceIds, c \in ClientIds, d \in Times : EditInvoice(i, c, d)
  \/ \E i \in InvoiceIds : SendInvoice(i)
  \/ \E i \in InvoiceIds : MarkPaidDetail(i)
  \/ ListRead
  \/ \E i \in InvoiceIds : ListWrite(i)

SpecForm == InitClients /\ [][NextForm]_vars

\* A request that passes the key check and calls the processor.
PostAccepted(p) == POST(p) /\ proc'[p].pc = "query"

\* The due query resolves with rows.
QueryOK(p) == QueryDue(p) /\ proc'[p].queried = "ok"

\* The transport accepts the email of reminder r.
SendOK(p, r) ==
  /\ SendEmail(p)
  /\ proc[p].due[proc[p].k].id = r
  /\ proc'[p].log[r].result = "ok"

\* The store applies the update to sent of reminder r.
UpdateOK(p, r) ==
  /\ UpdateSent(p)
  /\ proc[p].due[proc[p].k].id = r
  /\ proc'[p].log[r].write = "ok"

\* The store applies the update to cancelled of reminder r.
CancelOK(p, r) ==
  /\ LoopHead(p)
  /\ proc[p].due[proc[p].k].id = r
  /\ proc'[p].log[r].write = "ok"

\* Invocations one after the other for ever, the users acting between them.
NextLive ==
  \/ Tick
  \/ proc["p1"].pc = "idle" /\ UserStep
  \/ POST("p1")
  \/ ProcStep("p1")

\* The scheduler calls the trigger again and again with a key that is
\* accepted; every awaited call resolves, so a running invocation goes on; and
\* no call fails for ever: the due query, and for each reminder the transport
\* and the two updates, succeed again and again when they are made again and
\* again.
Fairness ==
  /\ SF_vars(PostAccepted("p1"))
  /\ WF_vars(ProcStep("p1"))
  /\ SF_vars(QueryOK("p1"))
  /\ \A r \in ReminderIds :
       /\ SF_vars(SendOK("p1", r))
       /\ SF_vars(UpdateOK("p1", r))
       /\ SF_vars(CancelOK("p1", r))

SpecLive == InitClients /\ [][NextLive]_vars /\ Fairness

\* No invocation has processed a reminder yet at any slot, and none is running.
NothingProcessedYet ==
  \A p \in Procs : proc[p].pc = "idle" /\ proc[p].log = EmptyLog

\* Requests that are not serialised: a second request may arrive at slot p2
\* while the first is served at slot p1, and their awaits interleave.  Every
\* store update succeeds; one invoice is stored,
\* and the users act before the first invocation.
NextOverlap ==
  \/ Tick
  \/ NothingProcessedYet /\ UserStep
  \/ \E p \in Procs : POST(p)
  \/ \E p \in Procs : ProcStepApplied(p)

SpecOverlap == InitClients /\ [][NextOverlap]_vars

\* sendEmail on its own, for every content, with and without the provider
\* credential and EMAIL_FROM.
InitSendEmail ==
  /\ InitStore
  /\ call \in { NewSendEmail(c, k, e) : c \in Contents, k \in BOOLEAN, e \in EnvFrom }

NextSendEmail == SendEmailTry \/ MailSend \/ SendEmailCatch

SpecSendEmail == InitSendEmail /\ [][NextSendEmail]_vars

\* formatEmailTemplate on its own, for every due date and every now.
InitFormat ==
  /\ InitStore
  /\ call \in { NewFormat(t, d) : t \in Instants, d \in Instants }

NextFormat == FormatEmailTemplate

SpecFormat == InitFormat /\ [][NextFormat]_vars

\* The templates a user can write, and the invoices they are rendered for:
\* invoice numbers and client names are free text.
Subjects ==
  { <<"D", "u", "e", " ", "{invoice_number}">>,
    <<"{client_name}", ":", "{amount}", "\n", "{client_name}">>,
    <<"{user_name}", "{company_name}", "{due_date}">> }

Bodies ==
  { <<"H", "i", " ", "{client_name}", "\n", "{days_overdue}", " ", "{due_date}">>,
    <<"{invoice_number}", "\n", "\n", "{amount}", "{user_name}">>,
    <<"{invoice_number}", " ", "{client_name}", " ", "{company_name}">> }

InvoiceNumbers == { <<"1">>, <<"{client_name}">> }

ClientNames ==
  { <<"A", "n", "n">>, <<"R", "&", "D">>, <<"C", "a", "$", "$", "h">>,
    <<"A", "$", "&", "B">>, <<"{user_name}">> }

Amounts == { 5, 1050 }

\* formatEmailTemplate on its own, for every template and every invoice.
InitRender ==
  /\ InitStore
  /\ call \in { NewRender(MaxInstant, 0, [subject |-> s, body |-> b],
                          [invoice_number |-> n, currency |-> <<"U", "S", "D">>,
                           amount |-> a, client_name |-> c]) :
                 s \in Subjects, b \in Bodies, n \in InvoiceNumbers,
                 c \in ClientNames, a \in Amounts }

SpecRender == InitRender /\ [][NextFormat]_vars

TypeOK ==
  /\ clock \in Times
  /\ DOMAIN invoices \subseteq InvoiceIds
  /\ \A i \in DOMAIN invoices : invoices[i].status \in InvoiceStatus
  /\ DOMAIN reminders \subseteq ReminderIds
  /\ \A r \in DOMAIN reminders :
       /\ reminders[r].status \in ReminderStatus
       /\ reminders[r].sent_at \in Times \cup {Null}

\* ------------------------------------------------------------- claims
\* The invocation at slot p got its due rows, went through them and has
\* returned to POST, which has not answered yet.
AtReturn(p) == proc[p].pc = "return" /\ proc[p].queried = "ok"

DueRows(p) == { proc[p].due[n] : n \in DOMAIN proc[p].due }
DueIdsOf(pr) == { pr.due[n].id : n \in DOMAIN pr.due }

\* The reminder the loop body of slot p is working on.
Current(p) == proc[p].due[proc[p].k].id

\* C1 (as stated): every due reminder whose joined invoice is paid has, after
\* the invocation, status cancelled and sent_at unset, and no sendEmail call
\* was made for it.
C1_PaidIsCancelled ==
  \A p \in Procs : AtReturn(p) =>
    \A row \in DueRows(p) :
      (row.invoice.present /\ row.invoice.status = "paid" /\ row.id \in DOMAIN reminders) =>
        /\ reminders[row.id].status = "cancelled"
        /\ reminders[row.id].sent_at = Null
        /\ proc[p].log[row.id].calls = 0

\* C1 (amended): for every due reminder whose joined invoice is paid the
\* invocation issues the cancelling update and makes no sendEmail call; after
\* the invocation sent_at is unset, and the status is cancelled when the store
\* applied the update and still pending when the store refused it.
C1_PaidIsCancelledWhenStored ==
  \A p \in Procs : AtReturn(p) =>
    \A row \in DueRows(p) :
      (row.invoice.present /\ row.invoice.status = "paid") =>
        /\ proc[p].log[row.id].step = "cancel"
        /\ proc[p].log[row.id].calls = 0
        /\ proc[p].log[row.id].write \in {"ok", "error"}
        /\ row.id \in DOMAIN reminders =>
             /\ reminders[row.id].sent_at = Null
             /\ reminders[row.id].status =
                  IF proc[p].log[row.id].write = "ok" THEN "cancelled" ELSE "pending"

\* C1 witness: an invocation that cancelled the reminder of a paid invoice.
C1_Witness ==
  \E p \in Procs : AtReturn(p) /\
    \E row \in DueRows(p) :
      /\ row.invoice.present /\ row.invoice.status = "paid"
      /\ row.id \in DOMAIN reminders
      /\ reminders[row.id].status = "cancelled"

\* C2 (as stated), for the reminders whose update the store applied: after a
\* successful sendEmail the reminder has status sent and sent_at equal to the
\* invocation time, with exactly one sendEmail call.
C2_SentAtInvocationTime ==
  \A p \in Procs : AtReturn(p) =>
    \A row \in DueRows(p) :
      (/\ proc[p].log[row.id].result = "ok"
       /\ proc[p].log[row.id].write = "ok"
       /\ row.id \in DOMAIN reminders) =>
        /\ reminders[row.id].status = "sent"
        /\ reminders[row.id].sent_at = proc[p].now
        /\ proc[p].log[row.id].calls = 1

\* After the invocation: what holds of a reminder whose sendEmail call succeeded.
C2_AfterSend ==
  \A p \in Procs : AtReturn(p) =>
    \A row \in DueRows(p) :
      proc[p].log[row.id].result = "ok" =>
        /\ proc[p].log[row.id].calls = 1
        /\ proc[p].log[row.id].write \in {"ok", "error"}
        /\ row.id \in DOMAIN reminders =>
             IF proc[p].log[row.id].write = "ok"
               THEN /\ reminders[row.id].status = "sent"
                    /\ proc[p].now <= reminders[row.id].sent_at
                    /\ reminders[row.id].sent_at <= clock
               ELSE /\ reminders[row.id].status = "pending"
                    /\ reminders[row.id].sent_at = Null

\* The step that applies the update of a sent reminder stores the time of
\* that step.
C2_WriteStep ==
  \A p \in Procs :
    (/\ proc[p].pc = "update" /\ proc'[p].pc # "update"
     /\ Current(p) \in DOMAIN reminders
     /\ proc'[p].log[Current(p)].write = "ok") =>
        /\ reminders'[Current(p)].status = "sent"
        /\ reminders'[Current(p)].sent_at = clock

\* C2 (amended): after a successful sendEmail exactly one sendEmail call was
\* made for the reminder in the invocation and the invocation issued the
\* update; when the store applied it the status is sent and sent_at is the
\* time at which the update was made (new Date() at the write, at or after the
\* invocation time); when the store refused it the reminder is still pending
\* with sent_at unset.
C2_SentAtWriteTime == []C2_AfterSend /\ [][C2_WriteStep]_vars

\* C2 witness: a reminder recorded as sent at a time after the invocation time.
C2_Witness ==
  \E p \in Procs : AtReturn(p) /\
    \E row \in DueRows(p) :
      /\ proc[p].log[row.id].result = "ok"
      /\ row.id \in DOMAIN reminders
      /\ reminders[row.id].status = "sent"
      /\ reminders[row.id].sent_at > proc[p].now

\* A stored reminder whose last sendEmail call failed is pending, sent_at unset.
C3_StaysPending ==
  \A p \in Procs : \A r \in DOMAIN reminders :
    proc[p].log[r].result = "fail" =>
      /\ reminders[r].status = "pending"
      /\ reminders[r].sent_at = Null

\* The due query that answers next returns every stored reminder whose send
\* failed in the invocation before.
C3_QueriedAgain ==
  \A p \in Procs :
    (proc[p].pc = "query" /\ proc'[p].queried = "ok") =>
      \A r \in DOMAIN reminders :
        proc[p].log[r].result = "fail" => r \in DueIdsOf(proc'[p])

\* C3: a due reminder whose sendEmail call failed stays pending with sent_at
\* unset, and as long as the row exists it is among the rows of the next due
\* query that answers.
C3_FailedSendIsRetried == []C3_StaysPending /\ [][C3_QueriedAgain]_vars

\* C3 witness: the next invocation has issued its due query while a reminder
\* whose send failed in the invocation before is still stored.
C3_Witness ==
  \E p \in Procs : \E r \in DOMAIN reminders :
    /\ proc[p].pc = "query"
    /\ proc[p].log[r].result = "fail"

\* C4 (as stated): no reminder gets a second successful sendEmail call, the
\* store's status update being allowed to fail.
C4_AtMostOneSuccessfulSend ==
  [][\A p \in Procs :
       (proc[p].pc = "send" /\ proc'[p].pc = "update") => Current(p) \notin delivered]_vars

\* C5: no step changes the status of a stored reminder that is sent or
\* cancelled.
C5_TerminalIsFinal ==
  [][\A r \in DOMAIN reminders \cap DOMAIN reminders' :
       reminders[r].status \in {"sent", "cancelled"} =>
         reminders'[r].status = reminders[r].status]_vars

\* C5 witness: an invocation went through its due rows while a sent reminder
\* of an invoice that has been paid since was stored and was not among them.
C5_Witness ==
  \E p \in Procs : AtReturn(p) /\
    \E r \in DOMAIN reminders :
      /\ reminders[r].status = "sent"
      /\ reminders[r].scheduled_date <= proc[p].now
      /\ r \notin DueIdsOf(proc[p])
      /\ reminders[r].invoice_id \in DOMAIN invoices
      /\ invoices[reminders[r].invoice_id].status = "paid"
      /\ proc[p].due # <<>>

\* C6 (as stated): at every sendEmail call of the processor the stored status
\* of the reminder's invoice is not paid.
C6_NoSendOncePaid ==
  [][\A p \in Procs :
       (proc[p].pc = "send" /\ proc'[p].pc # "send") =>
         LET i == proc[p].due[proc[p].k].invoice_id
         IN i \in DOMAIN invoices => invoices[i].status # "paid"]_vars

\* C7 (as stated): an invoice whose stored status is paid keeps it.
C7_PaidIsAbsorbing ==
  [][\A i \in DOMAIN invoices \cap DOMAIN invoices' :
       invoices[i].status = "paid" => invoices'[i].status = "paid"]_vars

\* C8: a step of an invocation makes a sendEmail call or issues an update only
\* for a reminder that is stored as pending with a scheduled_date not after the
\* invocation time, and no step changes another stored reminder.
C8_OnlyPendingDueTouched ==
  [][/\ \A p \in Procs : \A r \in DOMAIN reminders :
          (\/ proc'[p].log[r].calls > proc[p].log[r].calls
           \/ (proc[p].log[r].write = "none" /\ proc'[p].log[r].write # "none")) =>
             /\ reminders[r].status = "pending"
             /\ reminders[r].scheduled_date <= proc[p].now
     /\ \A r \in DOMAIN reminders \cap DOMAIN reminders' :
          reminders'[r] # reminders[r] =>
            /\ reminders[r].status = "pending"
            /\ \E p \in Procs :
                 /\ proc[p].pc \in {"loop", "update"}
                 /\ reminders[r].scheduled_date <= proc[p].now]_vars

\* C8 witness: an invocation sent one reminder and has returned while a
\* reminder scheduled after the invocation time is stored, still pending.
C8_Witness ==
  \E p \in Procs : AtReturn(p) /\
    \E r \in DOMAIN reminders :
      /\ reminders[r].scheduled_date > proc[p].now
      /\ reminders[r].status = "pending"
      /\ \E row \in DueRows(p) : proc[p].log[row.id].calls = 1

\* C9 (as stated): when the due query fails no reminder is processed and the
\* endpoint answers 500.
C9_QueryFailureAnswers500 ==
  \A p \in Procs :
    (proc[p].pc = "return" /\ proc[p].queried = "error") =>
      /\ proc[p].due = <<>>
      /\ Response(p) = "500"

\* The branch of the loop body the joined row of a reminder selects.
BranchOf(row) ==
  IF ~row.invoice.present THEN "threw"
  ELSE IF row.invoice.status = "paid" THEN "cancel"
  ELSE IF ~row.invoice.client THEN "threw"
  ELSE "send"

\* C10: whatever failed for the other reminders, when the invocation returns
\* every reminder of the due set has been processed, and what was done for it
\* is decided by its own joined row and the results of its own calls.
C10_FailuresAreIsolated ==
  \A p \in Procs : AtReturn(p) =>
    /\ proc[p].k = Len(proc[p].due) + 1
    /\ \A row \in DueRows(p) :
         LET l == proc[p].log[row.id]
         IN /\ l.step = BranchOf(row)
            /\ l.calls = IF l.step = "send" THEN 1 ELSE 0
            /\ (l.result # "none") <=> (l.step = "send")
            /\ (l.write # "none") <=> (l.step = "cancel" \/ l.result = "ok")
            /\ row.id \in DOMAIN reminders =>
                 reminders[row.id].status =
                   IF l.write # "ok" THEN "pending"
                   ELSE IF l.step = "cancel" THEN "cancelled" ELSE "sent"

\* C10 witness: the first reminder of a due set threw and the second one was
\* sent and recorded.
C10_Witness ==
  \E p \in Procs : AtReturn(p) /\
    /\ Len(proc[p].due) = 2
    /\ proc[p].log[proc[p].due[1].id].step = "threw"
    /\ ~proc[p].due[1].invoice.client
    /\ proc[p].log[proc[p].due[2].id].write = "ok"
    /\ proc[p].due[2].id \in DOMAIN reminders
    /\ reminders[proc[p].due[2].id].status = "sent"

\* C13 (as stated): a fetch that has returned gives every invoice it read as
\* sent and past due with status overdue, whether or not its write was applied.
C13_OverdueReturnedDespiteFailedWrite ==
  \A f \in Fetches : Returned(f) =>
    \A i \in fetched[f].over : fetched[f].data[i] = "overdue"

\* While a fetch runs and after it has returned, it has issued one update for
\* each invoice it found sent and past due and has not still to write, and none
\* for any other invoice.
C14_Updates ==
  \A f \in Fetches : fetched[f].ran =>
    \A i \in InvoiceIds :
      fetched[f].updates[i] = IF i \in fetched[f].over \ Todo(f) THEN 1 ELSE 0

\* The select of a fetch: the invoices it is going to update are the ones
\* stored as sent with a due date before now; every other invoice it read is
\* returned with its stored status.
C14_ReadStep ==
  \A f \in Fetches :
    (/\ fetched'[f] # fetched[f]
     /\ \A i \in InvoiceIds : fetched'[f].updates[i] = 0) =>
       /\ fetched'[f].over =
            { i \in DOMAIN fetched'[f].data :
                invoices[i].status = "sent" /\ invoices[i].due_date < clock }
       /\ Todo(f)' = fetched'[f].over
       /\ \A i \in DOMAIN fetched'[f].data \ fetched'[f].over :
            fetched'[f].data[i] = invoices[i].status

\* An invoice stored as overdue is never stored as sent again.
C14_Persisted ==
  \A i \in DOMAIN invoices \cap DOMAIN invoices' :
    invoices[i].status = "overdue" => invoices'[i].status \in {"overdue", "paid"}

C15_NoInvoiceOfDeletedClient ==
  \A i \in DOMAIN invoices : invoices[i].client_id \in clients

\* C16 (as stated): every stored reminder belongs to a stored invoice, also
\* when a reminder is scheduled between the two steps of delete-invoice.
C16_NoReminderOfDeletedInvoice ==
  \A r \in DOMAIN reminders : reminders[r].invoice_id \in DOMAIN invoices

\* C17: a call of sendEmail that is over has resolved, to success or to a
\* failure with an error text, and has not thrown; without the provider
\* credential it resolved to a failure and mail.send was not called; with it
\* mail.send was called once and the result says what the provider did.
C17_SendEmailNeverThrows ==
  (call.fn = "sendEmail" /\ call.pc = "done") =>
    /\ call.result.kind = "resolved"
    /\ call.result.success \/ call.result.error # Unset
    /\ ~call.key => (~call.result.success /\ call.sends = 0)
    /\ call.key => (call.sends = 1 /\ (call.result.success <=> call.provider = "accepted"))

\* C17 witness: a call without the credential is over, and resolved to a failure.
C17_Witness ==
  /\ call.fn = "sendEmail" /\ call.pc = "done"
  /\ ~call.key
  /\ call.result = [kind |-> "resolved", success |-> FALSE,
                    error |-> "SendGrid API key is not configured"]

\* The value of (now - due date) in whole days, rounded down, is the d with
\* d days <= now - due date < d + 1 days.
C20_IsFloorOfDays(d, today, dueDate) ==
  /\ d * TicksPerDay <= today - dueDate
  /\ today - dueDate < (d + 1) * TicksPerDay

\* C20: the rendered {days_overdue} is the decimal text of
\* max(0, floor((now - due date) in whole days)): of 0 when the due date is at
\* or after now, never of a negative number.
C20_DaysOverdueNeverNegative ==
  (call.fn = "formatEmailTemplate" /\ call.pc = "done") =>
    /\ call.days_overdue[1] # "-"
    /\ call.dueDate >= call.today => call.days_overdue = <<"0">>
    /\ \E d \in 0..MaxInstant :
         /\ call.days_overdue = String(d)
         /\ \/ C20_IsFloorOfDays(d, call.today, call.dueDate)
            \/ d = 0 /\ call.today - call.dueDate < 0

\* C20 witness: a template rendered for a due date more than a day after now
\* shows 0 days overdue.
C20_Witness ==
  /\ call.fn = "formatEmailTemplate" /\ call.pc = "done"
  /\ call.dueDate - call.today > TicksPerDay
  /\ call.days_overdue = <<"0">>

\* C11 (as stated): when an invocation returns, one sendEmail call was made
\* for each due reminder whose joined invoice is not paid and none for the
\* others; with an empty due set nothing was called or written and the
\* endpoint does not answer with an error.
C11_OneCallPerUnpaidReminder ==
  \A p \in Procs : AtReturn(p) =>
    /\ \A row \in DueRows(p) :
         proc[p].log[row.id].calls = IF row.invoice.status = "paid" THEN 0 ELSE 1
    /\ proc[p].due = <<>> => (proc[p].log = EmptyLog /\ Response(p) = "200")

\* Every send and every update of the invocation whose log is l succeeded, and
\* it processed at least one reminder.
C12_AllSucceeded(l) ==
  /\ l # EmptyLog
  /\ \A r \in ReminderIds : l[r].result # "fail" /\ l[r].write # "error"

\* C12 (as stated): the due query of an invocation that follows a fully
\* successful one, with nothing but time in between, returns no reminder that
\* is sent or cancelled by it.
C12_SecondInvocationDoesNothing ==
  [][\A p \in Procs :
       (/\ proc[p].pc = "query" /\ proc'[p].queried = "ok"
        /\ C12_AllSucceeded(proc[p].log)) =>
          \A row \in DueRows(p)' : BranchOf(row) = "threw"]_vars

\* C12 (amended): the due query of an invocation that follows a fully
\* successful one, with nothing but time in between, returns no reminder of the
\* first invocation's due set that is sent or cancelled by it: the ones it sends
\* or cancels were not due at the first invocation.
C12_IdempotentOnProcessed ==
  [][\A p \in Procs :
       (/\ proc[p].pc = "query" /\ proc'[p].queried = "ok"
        /\ C12_AllSucceeded(proc[p].log)) =>
          \A row \in DueRows(p)' :
            proc[p].log[row.id].step # "none" =>
              /\ BranchOf(row) = "threw"
              /\ proc[p].log[row.id].step = "threw"]_vars

\* C12 witness: the second invocation is about to get its due rows after a
\* first one that sent a reminder and recorded it, every call having succeeded.
C12_Witness ==
  \E p \in Procs : \E r \in DOMAIN reminders :
    /\ proc[p].pc = "query"
    /\ C12_AllSucceeded(proc[p].log)
    /\ proc[p].log[r].write = "ok"
    /\ reminders[r].status = "sent"
    /\ reminders[r].scheduled_date <= proc[p].now

\* C18 (as stated): a due reminder whose joined invoice or client is missing
\* gets no sendEmail call, its failure is caught and logged, it is left
\* pending, and the loop goes on to the end of the due set.
C18_DanglingIsLeftPending ==
  \A p \in Procs : AtReturn(p) =>
    \A row \in DueRows(p) :
      (~row.invoice.present \/ ~row.invoice.client) =>
        /\ proc[p].log[row.id].calls = 0
        /\ proc[p].log[row.id].step = "threw"
        /\ row.id \in DOMAIN reminders => reminders[row.id].status = "pending"
        /\ proc[p].k = Len(proc[p].due) + 1

\* C18 (amended): a due reminder whose joined invoice is missing, or whose
\* invoice is not paid and has no client, gets no sendEmail call and no update,
\* its failure is caught and logged, it is left pending, and the loop goes on to
\* the end of the due set; a due reminder of a paid invoice without client gets
\* the cancelling update like every reminder of a paid invoice.
C18_UnprocessableIsLeftPending ==
  \A p \in Procs : AtReturn(p) =>
    \A row \in DueRows(p) :
      (~row.invoice.present \/ ~row.invoice.client) =>
        /\ proc[p].log[row.id].calls = 0
        /\ proc[p].k = Len(proc[p].due) + 1
        /\ IF row.invoice.present /\ row.invoice.status = "paid"
             THEN proc[p].log[row.id].step = "cancel"
             ELSE /\ proc[p].log[row.id].step = "threw"
                  /\ proc[p].log[row.id].write = "none"
                  /\ row.id \in DOMAIN reminders =>
                       /\ reminders[row.id].status = "pending"
                       /\ reminders[row.id].sent_at = Null

\* C18 witness: the first reminder of a due set had lost its invoice, was left
\* pending, and the reminder after it was processed.
C18_Witness ==
  \E p \in Procs : AtReturn(p) /\
    /\ Len(proc[p].due) = 2
    /\ ~proc[p].due[1].invoice.present
    /\ proc[p].due[1].id \in DOMAIN reminders
    /\ reminders[proc[p].due[1].id].status = "pending"
    /\ proc[p].log[proc[p].due[2].id].step \in {"send", "cancel"}

\* The send step for a reminder whose owner lookup gave no row: the call is
\* made, with fromName and replyTo unset so that sendEmail puts its defaults,
\* and on success the update is next.
C19_SendStep ==
  \A p \in Procs :
    (proc[p].pc = "send" /\ proc[p].user = "null" /\ proc'[p] # proc[p]) =>
      /\ proc'[p].log[Current(p)].calls = proc[p].log[Current(p)].calls + 1
      /\ proc'[p].log[Current(p)].result = "ok" => proc'[p].pc = "update"
      /\ EmailContent(proc[p].user).fromName = Unset
      /\ EmailContent(proc[p].user).replyTo = Unset
      /\ \A env \in EnvFrom :
           LET msg == Message(EmailContent(proc[p].user), env)
           IN /\ msg.from.name = "Invoice Nudger"
              /\ msg.from.email = OrElse(env, "noreply@invoicenudger.com")
              /\ msg.replyTo = msg.from.email

\* The update step after that send: when the store applies it the reminder is
\* sent.
C19_UpdateStep ==
  \A p \in Procs :
    (/\ proc[p].pc = "update" /\ proc[p].user = "null"
     /\ Current(p) \in DOMAIN reminders
     /\ proc'[p].log[Current(p)].write = "ok") =>
        reminders'[Current(p)].status = "sent"

C26_Rank(pr) ==
  3 * pr.k + (IF pr.pc = "send" THEN 1 ELSE IF pr.pc = "update" THEN 2 ELSE 0)

\* While an invocation goes through its due rows: the rows before the current
\* one are done (visited once, the update issued when the send succeeded), the
\* rows after it are untouched, no reminder is twice among the rows, and the
\* function returns after the last row.
C26_OneAfterAnother ==
  \A p \in Procs :
    (proc[p].queried = "ok" /\ proc[p].pc \in {"loop", "send", "update", "return"}) =>
      LET pr == proc[p]
      IN /\ pr.pc = "return" <=> pr.k = Len(pr.due) + 1
         /\ \A m, n \in DOMAIN pr.due : m # n => pr.due[m].id # pr.due[n].id
         /\ \A n \in DOMAIN pr.due :
              LET l == pr.log[pr.due[n].id]
              IN /\ l.calls <= 1
                 /\ n < pr.k => /\ l.step # "none"
                                /\ l.step = "send" => l.calls = 1
                                /\ l.result = "ok" => l.write # "none"
                 /\ n > pr.k => l = EmptyLog[pr.due[n].id]
                 /\ (n = pr.k /\ pr.pc = "loop") => l = EmptyLog[pr.due[n].id]
                 /\ (n = pr.k /\ pr.pc = "send") => (l.step = "send" /\ l.calls = 0)
                 /\ (n = pr.k /\ pr.pc = "update") =>
                      (l.calls = 1 /\ l.result = "ok" /\ l.write = "none")

\* Every step of the loop goes forward in the rows as the query returned them,
\* so the loop ends after at most three steps per row.
C26_Forward ==
  \A p \in Procs :
    (proc[p].pc \in {"loop", "send", "update"} /\ proc'[p] # proc[p]) =>
      /\ proc'[p].due = proc[p].due
      /\ proc'[p].pc \in {"loop", "send", "update", "return"}
      /\ C26_Rank(proc'[p]) > C26_Rank(proc[p])
      /\ C26_Rank(proc'[p]) <= 3 * (Len(proc[p].due) + 1)

\* C26: within one invocation the due reminders are processed one after
\* another in the order of the query result: the send and the status write of
\* reminder k are over before anything is done for reminder k+1, each reminder
\* is visited exactly once, and the invocation ends when its calls return.
C26_SequentialAndTerminating == []C26_OneAfterAnother /\ [][C26_Forward]_vars

\* C26 witness: the first reminder was sent and recorded, the loop is at the
\* second one and has done nothing for it yet.
C26_Witness ==
  \E p \in Procs :
    /\ proc[p].pc = "loop" /\ proc[p].k = 2
    /\ proc[p].log[proc[p].due[1].id].write = "ok"
    /\ proc[p].log[proc[p].due[1].id].calls = 1
    /\ proc[p].log[proc[p].due[2].id].step = "none"

\* C27: a stored reminder has sent_at set if and only if its status is sent.
C27_SentAtIffSent ==
  \A r \in DOMAIN reminders :
    (reminders[r].sent_at # Null) <=> (reminders[r].status = "sent")

\* C27 witness: one reminder is sent with sent_at set, another one cancelled
\* with sent_at unset.
C27_Witness ==
  \E r, c \in DOMAIN reminders :
    /\ reminders[r].status = "sent" /\ reminders[r].sent_at # Null
    /\ reminders[c].status = "cancelled" /\ reminders[c].sent_at = Null

\* C28: a step of the trigger or of processScheduledReminders leaves the
\* invoices and the clients as they are, adds and removes no reminder, and
\* leaves invoice_id and scheduled_date of every reminder as they are.
C28_WritesOnlyStatusAndSentAt ==
  [][proc' # proc =>
       /\ invoices' = invoices
       /\ clients' = clients
       /\ DOMAIN reminders' = DOMAIN reminders
       /\ \A r \in DOMAIN reminders :
            /\ reminders'[r].invoice_id = reminders[r].invoice_id
            /\ reminders'[r].scheduled_date = reminders[r].scheduled_date]_vars

\* C28 witness: an invocation has recorded a send made after the scheduled
\* date, for an invoice that is still stored as sent.
C28_Witness ==
  \E p \in Procs : AtReturn(p) /\
    \E row \in DueRows(p) :
      /\ proc[p].log[row.id].write = "ok"
      /\ row.id \in DOMAIN reminders
      /\ reminders[row.id].status = "sent"
      /\ reminders[row.id].sent_at > reminders[row.id].scheduled_date
      /\ row.invoice_id \in DOMAIN invoices
      /\ invoices[row.invoice_id].status = "sent"

\* C29 (as stated): when a delete-invoice operation ends with the invoice
\* still stored, it has removed none of that invoice's reminders; and a step of
\* a delete-invoice operation removes no reminder of another invoice.
C29_FailedDeleteKeepsReminders ==
  [][\A i \in InvoiceIds :
       /\ (i \in deleting /\ i \notin deleting' /\ i \in DOMAIN invoices') =>
            removed[i] = {}
       /\ (i \notin deleting /\ i \in deleting') =>
            \A r \in DOMAIN reminders :
              reminders[r].invoice_id # i =>
                (r \in DOMAIN reminders' /\ reminders'[r] = reminders[r])]_vars

\* The requests are refused: a secret is configured and the header differs.
C22_Refused == call.fn = "POST" /\ call.secretSet /\ ~call.keyMatches

\* What a request has done so far at slot p, under the key check of the claim.
C22_Checked ==
  \A p \in Procs :
    IF C22_Refused
      THEN /\ proc[p].pc \in {"idle", "return"}
           /\ proc[p].pc = "return" => (proc[p].denied /\ Response(p) = "401")
           /\ proc[p].queried = "none"
           /\ proc[p].log = EmptyLog
           /\ delivered = {}
           /\ \A r \in DOMAIN reminders :
                reminders[r].status = "pending" /\ reminders[r].sent_at = Null
      ELSE /\ ~proc[p].denied
           /\ proc[p].pc \in {"loop", "send", "update"} => proc[p].queried = "ok"
           /\ proc[p].pc = "return" =>
                /\ proc[p].queried \in {"ok", "error"}
                /\ Response(p) \in {"200", "500"}

\* The due query of the processor is issued once per request: its result is
\* recorded once, when the query resolves, and forgotten when the request ends.
C22_OneRun ==
  \A p \in Procs :
    proc'[p].queried # proc[p].queried =>
      \/ proc[p].pc = "query" /\ proc[p].queried = "none"
      \/ proc'[p].pc = "idle"

\* C22: when API_SECRET_KEY is configured and the x-api-key header differs,
\* POST answers 401 and no reminder is processed; when the key matches or no
\* secret is configured the processor runs exactly once and the response is a
\* success or a failure.
C22_SharedSecret == []C22_Checked /\ [][C22_OneRun]_vars

\* C22 witness: a request was refused with 401 while a due reminder is pending.
C22_Witness ==
  /\ C22_Refused
  /\ proc["p1"].pc = "return" /\ proc["p1"].denied
  /\ DueIds(clock) # {}

\* C23: no reminder is claimed before it is processed.  With every store
\* update succeeding, a successful sendEmail call for a reminder that already
\* had one is made only by an invocation that overlapped another one: it is
\* not reachable when the invocations run strictly one after another.
C23_SecondSendOnlyWhenOverlapping ==
  [][\A p \in Procs :
       (proc[p].pc = "send" /\ proc'[p].pc = "update" /\ Current(p) \in delivered) =>
         proc[p].overlapped]_vars

\* C23 witness: two invocations that overlapped have both made a successful
\* sendEmail call for the same reminder.
C23_Witness ==
  \E r \in DOMAIN reminders :
    /\ proc["p1"].overlapped /\ proc["p2"].overlapped
    /\ proc["p1"].log[r].result = "ok" /\ proc["p1"].log[r].calls = 1
    /\ proc["p2"].log[r].result = "ok" /\ proc["p2"].log[r].calls = 1

\* C25 (as stated): after a crash of the processor at any await, with every
\* issued store update succeeding, the invocations that follow repeat no
\* effect: no reminder whose email was delivered gets another successful
\* sendEmail call.
C25_NoSecondEmailAfterCrash ==
  [][\A r \in delivered :
       proc'["p1"].log[r].calls > proc["p1"].log[r].calls =>
         proc'["p1"].log[r].result # "ok"]_vars

\* C30: a step that changes the client or the due date of a stored invoice,
\* which only a save of the invoice form does, keeps its status; and an
\* invoice that is new in the store has status draft.
C30_SaveKeepsStatus ==
  [][\A i \in InvoiceIds :
       /\ (i \in DOMAIN invoices /\ i \in DOMAIN invoices' /\
           (invoices'[i].due_date # invoices[i].due_date \/
            invoices'[i].client_id # invoices[i].client_id)) =>
            invoices'[i].status = invoices[i].status
       /\ (i \notin DOMAIN invoices /\ i \in DOMAIN invoices') =>
            invoices'[i].status = "draft"]_vars

\* C30 witness: an invoice that is stored as overdue has a due date that has
\* not passed, so its due date was edited after it became overdue; and a paid
\* invoice has another client than the one it was created for.
C30_Witness ==
  \E i, j \in DOMAIN invoices :
    /\ invoices[i].status = "overdue" /\ invoices[i].due_date >= clock
    /\ invoices[j].status = "paid" /\ invoices[j].client_id = "c2"
    /\ "i2" \in DOMAIN invoices

\* The text with every placeholder replaced by its value in the table.
RECURSIVE C21_Filled(_, _)
C21_Filled(text, values) ==
  IF text = <<>> THEN <<>>
  ELSE LET k == { n \in DOMAIN Placeholders : Placeholders[n] = Head(text) }
       IN (IF k = {} THEN <<Head(text)>> ELSE values[CHOOSE n \in k : TRUE])
            \o C21_Filled(Tail(text), values)

\* C21 (as stated): the rendered subject is the template's subject with every
\* occurrence of each placeholder replaced by the table's value for it, the
\* rendered body is the template's body with the same replacements and with
\* its line breaks replaced, and the template is as it was.
C21_RendersTheTable ==
  (call.fn = "formatEmailTemplate" /\ call.pc = "done") =>
    LET values == Replacements(call.today, call.dueDate, call.invoice)
    IN /\ call.subject = C21_Filled(call.template.subject, values)
       /\ call.body = LineBreaks(C21_Filled(call.template.body, values))

\* Reminder r is pending and due, with its invoice and the client stored.
C24_Waiting(r) ==
  /\ r \in DOMAIN reminders
  /\ IsDue(reminders[r], clock)
  /\ JoinInvoice(reminders[r].invoice_id).present
  /\ JoinInvoice(reminders[r].invoice_id).client

\* Reminder r or what it needs has been removed by the user.
C24_Removed(r) ==
  \/ r \notin DOMAIN reminders
  \/ ~JoinInvoice(reminders[r].invoice_id).present
  \/ ~JoinInvoice(reminders[r].invoice_id).client

C24_Paid(r) == JoinInvoice(reminders[r].invoice_id).status = "paid"

====
